---- MODULE Spec2Model ----
(***************************************************************************)
(* AlphaCala (src/main.cpp): the Kalah rules engine (next_pit_index,       *)
(* play_move), the alpha-beta search (minimax) and the game loop of main.  *)
(*                                                                         *)
(* A board is a function 0..13 -> 0..255 (std::array<std::uint8_t, 14>).   *)
(* Five specifications share the variables:                                *)
(*   SpecMove    one call of play_move on each board of MoveBoards;        *)
(*   SpecSearch  one call of minimax on each board of SearchBoards;        *)
(*   SpecPlay    every sequence of legal moves from the starting board;    *)
(*   Spec        the game loop of main from the starting board;            *)
(*   SpecGames   every game of legal moves from each board of GameBoards,  *)
(*               played to its end.                                        *)
(***************************************************************************)
EXTENDS Integers, Sequences, FiniteSets

VARIABLES board, is_ac_turn, pc, prev, pit, go_again, qdepth, eval, ac_move,
          copies_ok, turns_ok, eval_lo, eval_hi, cut, moves

vars == <<board, is_ac_turn, pc, prev, pit, go_again, qdepth, eval, ac_move,
          copies_ok, turns_ok, eval_lo, eval_hi, cut, moves>>

(***************************************************************************)
(* Program constants and model bounds                                      *)
(***************************************************************************)
start_seeds == 4

AC_PITS == <<5, 4, 3, 2, 1, 0>>

OPP_PITS == <<12, 11, 10, 9, 8, 7>>

\* Largest seed count of the one large pit of an enumerated board.
MaxSeeds == 14

\* Largest seed count of the other occupied pits of an enumerated board.
MaxSmall == 2

Cells == 0..13

PitCells == (0..5) \cup (7..12)

TotalSeeds == 12 * start_seeds

Byte(n) == n % 256

RECURSIVE SumUpTo(_, _)
SumUpTo(b, k) == IF k < 0 THEN 0 ELSE b[k] + SumUpTo(b, k - 1)

Total(b) == SumUpTo(b, 13)

(***************************************************************************)
(* Rules engine                                                            *)
(***************************************************************************)
\* Mutant: AlphaCala's sowing does not skip the opponent's store.
next_pit_index_noskip(pit_index, is_ac) ==
    IF pit_index = 5 /\ ~is_ac THEN 7
    ELSE (pit_index + 1) % 14

\* Mutant: the sowing of either side skips both stores.
next_pit_index_ring(pit_index, is_ac) ==
    IF pit_index = 12 THEN 0
    ELSE IF pit_index = 5 THEN 7
    ELSE (pit_index + 1) % 14

next_pit_index(pit_index, is_ac) ==
    IF pit_index = 12 /\ is_ac THEN 0
    ELSE IF pit_index = 5 /\ ~is_ac THEN 7
    ELSE (pit_index + 1) % 14

\* Mutant: the loop runs while num_seeds > 0 and sows every seed.
RECURSIVE sow_all(_, _, _, _)
sow_all(b, pit_index, num_seeds, is_ac_move) ==
    IF num_seeds > 0
    THEN LET nx == next_pit_index(pit_index, is_ac_move)
         IN  sow_all([b EXCEPT ![nx] = Byte(@ + 1)], nx, num_seeds - 1, is_ac_move)
    ELSE [board |-> b, pit_index |-> pit_index]

\* The while loop of play_move: sows num_seeds - 1 seeds, one per cell.
RECURSIVE sow(_, _, _, _)
sow(b, pit_index, num_seeds, is_ac_move) ==
    IF num_seeds > 1
    THEN LET nx == next_pit_index(pit_index, is_ac_move)
         IN  sow([b EXCEPT ![nx] = Byte(@ + 1)], nx, num_seeds - 1, is_ac_move)
    ELSE [board |-> b, pit_index |-> pit_index]

\* Mutant: a steal credits the store and leaves the facing pit as it is.
land_keep_facing(b, pit_index, is_ac_move) ==
    IF pit_index = 6 \/ pit_index = 13
    THEN [board |-> [b EXCEPT ![pit_index] = Byte(@ + 1)], ret |-> TRUE]
    ELSE LET facing_index == 12 - pit_index
             store_index  == IF is_ac_move THEN 6 ELSE 13
         IN  IF b[pit_index] = 0 /\ b[facing_index] > 0
                /\ (pit_index <= 5) = is_ac_move
             THEN [board |-> [b EXCEPT ![store_index] = Byte(@ + 1 + b[facing_index])],
                   ret |-> FALSE]
             ELSE [board |-> [b EXCEPT ![pit_index] = Byte(@ + 1)], ret |-> FALSE]

\* Mutant: a steal does not ask on whose side the last seed falls.
land_any_side(b, pit_index, is_ac_move) ==
    IF pit_index = 6 \/ pit_index = 13
    THEN [board |-> [b EXCEPT ![pit_index] = Byte(@ + 1)], ret |-> TRUE]
    ELSE LET facing_index == 12 - pit_index
             store_index  == IF is_ac_move THEN 6 ELSE 13
         IN  IF b[pit_index] = 0 /\ b[facing_index] > 0
             THEN [board |-> [b EXCEPT ![store_index] = Byte(@ + 1 + b[facing_index]),
                                       ![facing_index] = 0],
                   ret |-> FALSE]
             ELSE [board |-> [b EXCEPT ![pit_index] = Byte(@ + 1)], ret |-> FALSE]

\* Mutant: a steal is always credited to store 6.
land_ac_store(b, pit_index, is_ac_move) ==
    IF pit_index = 6 \/ pit_index = 13
    THEN [board |-> [b EXCEPT ![pit_index] = Byte(@ + 1)], ret |-> TRUE]
    ELSE LET facing_index == 12 - pit_index
         IN  IF b[pit_index] = 0 /\ b[facing_index] > 0
                /\ (pit_index <= 5) = is_ac_move
             THEN [board |-> [b EXCEPT ![6] = Byte(@ + 1 + b[facing_index]),
                                       ![facing_index] = 0],
                   ret |-> FALSE]
             ELSE [board |-> [b EXCEPT ![pit_index] = Byte(@ + 1)], ret |-> FALSE]

\* Mutant: a steal assigns the store (=) where the code adds to it (+=).
land_store_assign(b, pit_index, is_ac_move) ==
    IF pit_index = 6 \/ pit_index = 13
    THEN [board |-> [b EXCEPT ![pit_index] = Byte(@ + 1)], ret |-> TRUE]
    ELSE LET facing_index == 12 - pit_index
             store_index  == IF is_ac_move THEN 6 ELSE 13
         IN  IF b[pit_index] = 0 /\ b[facing_index] > 0
                /\ (pit_index <= 5) = is_ac_move
             THEN [board |-> [b EXCEPT ![store_index] = Byte(1 + b[facing_index]),
                                       ![facing_index] = 0],
                   ret |-> FALSE]
             ELSE [board |-> [b EXCEPT ![pit_index] = Byte(@ + 1)], ret |-> FALSE]

\* The last seed of play_move: store, steal or plain increment.
land(b, pit_index, is_ac_move) ==
    IF pit_index = 6 \/ pit_index = 13
    THEN [board |-> [b EXCEPT ![pit_index] = Byte(@ + 1)], ret |-> TRUE]
    ELSE LET end_on_ac_side == (pit_index <= 5)
             facing_index   == 12 - pit_index
             store_index    == IF is_ac_move THEN 6 ELSE 13
         IN  IF b[pit_index] = 0 /\ b[facing_index] > 0
                /\ end_on_ac_side = is_ac_move
             THEN [board |-> [b EXCEPT ![store_index] = Byte(@ + 1 + b[facing_index]),
                                       ![facing_index] = 0],
                   ret |-> FALSE]
             ELSE [board |-> [b EXCEPT ![pit_index] = Byte(@ + 1)], ret |-> FALSE]

\* Mutant: the source pit is not emptied before the sowing.
play_move_keep_source(b, pit_index) ==
    LET is_ac_move == (pit_index <= 5)
        s == sow(b, pit_index, b[pit_index], is_ac_move)
    IN  land(s.board, next_pit_index(s.pit_index, is_ac_move), is_ac_move)

play_move(b, pit_index) ==
    LET is_ac_move == (pit_index <= 5)
        num_seeds  == b[pit_index]
        s == sow([b EXCEPT ![pit_index] = 0], pit_index, num_seeds, is_ac_move)
    IN  land(s.board, next_pit_index(s.pit_index, is_ac_move), is_ac_move)

(***************************************************************************)
(* Enumerated boards: every board holds TotalSeeds seeds, as every board   *)
(* of a game does; the seeds not in the pits are banked in the two stores. *)
(***************************************************************************)
MkBoard(c1, v1, c2, v2, c3, v3, k) ==
    LET r  == TotalSeeds - (v1 + v2 + v3)
        s6 == IF k = 0 THEN r \div 2 ELSE r
    IN  [c \in Cells |->
            IF c = c1 THEN v1
            ELSE IF c = c2 THEN v2
            ELSE IF c = c3 THEN v3
            ELSE IF c = 6 THEN s6
            ELSE IF c = 13 THEN r - s6
            ELSE 0]

\* The board main builds before the game loop.
StartBoard == [c \in Cells |-> IF c = 6 \/ c = 13 THEN 0 ELSE start_seeds]

\* The stores are level on the boards where c1 + v1 is even and all the
\* banked seeds are in store 6 on the others.
MoveBoards ==
    { MkBoard(c1, v1, cc[1], v2, cc[2], v3, (c1 + v1) % 2) :
        c1 \in PitCells, v1 \in 0..MaxSeeds,
        cc \in { q \in PitCells \X PitCells : q[1] < q[2] },
        v2 \in 0..MaxSmall, v3 \in 0..MaxSmall }

(***************************************************************************)
(* SpecMove: play_move as a function of the board and the pit              *)
(***************************************************************************)
InitMove ==
    /\ board \in MoveBoards \cup {StartBoard}
    /\ is_ac_turn = TRUE
    /\ pc = "board"
    /\ prev = board
    /\ pit = -1
    /\ go_again = FALSE
    /\ qdepth = 0
    /\ eval = 0
    /\ ac_move = -1
    /\ copies_ok = TRUE
    /\ turns_ok = TRUE
    /\ eval_lo = 0
    /\ eval_hi = 0
    /\ cut = FALSE
    /\ moves = 0

PlayMove(p) ==
    /\ pc = "board"
    /\ board[p] > 0
    /\ LET m == play_move(board, p)
       IN  /\ board' = m.board
           /\ go_again' = m.ret
    /\ prev' = board
    /\ pit' = p
    /\ pc' = "moved"
    /\ UNCHANGED <<is_ac_turn, qdepth, eval, ac_move, copies_ok, turns_ok,
                   eval_lo, eval_hi, cut, moves>>

NextMove == \E p \in PitCells : PlayMove(p)

SpecMove == InitMove /\ [][NextMove]_vars

(***************************************************************************)
(* Search engine.  minimax yields a record: eval is the returned value,    *)
(* move_out the slot behind the pointer after the call (<<>> for nullptr,  *)
(* <<v>> for a slot holding v), board the content of the board object the  *)
(* node was given when it returns, and copies_ok whether every child in    *)
(* the subtree was played on a copy equal to its node's board.  turns_ok   *)
(* tells whether at every node of the subtree the side handed to a child   *)
(* was the mover's exactly when play_move returned true; lo and hi are the *)
(* least and the greatest value returned by a node of the subtree; cut     *)
(* tells whether a loop of the subtree broke off before a non-empty pit.   *)
(***************************************************************************)
Max(a, b) == IF a > b THEN a ELSE b

Min(a, b) == IF a < b THEN a ELSE b

\* The element of a one-element set.
Only(S) == CHOOSE x \in S : TRUE

RECURSIVE minimax(_, _, _, _, _, _)
RECURSIVE scan(_, _, _, _, _)

\* Mutant: the opponent's loop passes go_again as AlphaCala's loop does.
next_turn_unnegated(is_ac, again) == again

\* The is_ac_turn argument of the recursive call: go_again in AlphaCala's
\* loop, !go_again in the opponent's.
next_turn(is_ac, again) == IF is_ac THEN again ELSE ~again

\* Mutant: a child of equal value replaces the best move (>= and <=).
visit_ties(b, st, i, is_ac, depth) ==
    LET board_copy == st.board IN
    Only({ Only({
        LET tmp_eval == child.eval
            better   == IF is_ac THEN tmp_eval >= st.best_eval
                                 ELSE tmp_eval <= st.best_eval
        IN  [board     |-> st.board,
             best_eval |-> IF better THEN tmp_eval ELSE st.best_eval,
             best_move |-> IF better THEN i ELSE st.best_move,
             alpha     |-> IF is_ac THEN Max(st.alpha, tmp_eval) ELSE st.alpha,
             beta      |-> IF is_ac THEN st.beta ELSE Min(st.beta, tmp_eval),
             copies_ok |-> st.copies_ok /\ child.copies_ok /\ board_copy = b,
             turns_ok  |-> st.turns_ok /\ child.turns_ok
                           /\ ((next_turn(is_ac, m.ret) = is_ac) <=> m.ret),
             lo        |-> Min(st.lo, child.lo),
             hi        |-> Max(st.hi, child.hi),
             cut       |-> st.cut \/ child.cut] :
        child \in { minimax(m.board, next_turn(is_ac, m.ret),
                             depth - 1, <<>>, st.alpha, st.beta) } }) :
        m \in { play_move(board_copy, i) } })

\* Mutant: the move is played on the node's board itself, not on a copy.
visit_in_place(b, st, i, is_ac, depth) ==
    Only({ Only({
        LET tmp_eval == child.eval
            better   == IF is_ac THEN tmp_eval > st.best_eval
                                 ELSE tmp_eval < st.best_eval
        IN  [board     |-> m.board,
             best_eval |-> IF better THEN tmp_eval ELSE st.best_eval,
             best_move |-> IF better THEN i ELSE st.best_move,
             alpha     |-> IF is_ac THEN Max(st.alpha, tmp_eval) ELSE st.alpha,
             beta      |-> IF is_ac THEN st.beta ELSE Min(st.beta, tmp_eval),
             copies_ok |-> st.copies_ok /\ child.copies_ok /\ st.board = b,
             turns_ok  |-> st.turns_ok /\ child.turns_ok
                           /\ ((next_turn(is_ac, m.ret) = is_ac) <=> m.ret),
             lo        |-> Min(st.lo, child.lo),
             hi        |-> Max(st.hi, child.hi),
             cut       |-> st.cut \/ child.cut] :
        child \in { minimax(m.board, next_turn(is_ac, m.ret),
                             depth - 1, <<>>, st.alpha, st.beta) } }) :
        m \in { play_move(st.board, i) } })

\* One iteration of a pit loop of minimax, for a pit that is not empty.
visit(b, st, i, is_ac, depth) ==
    LET board_copy == st.board IN
    Only({ Only({
        LET tmp_eval == child.eval
            better   == IF is_ac THEN tmp_eval > st.best_eval
                                 ELSE tmp_eval < st.best_eval
        IN  [board     |-> st.board,
             best_eval |-> IF better THEN tmp_eval ELSE st.best_eval,
             best_move |-> IF better THEN i ELSE st.best_move,
             alpha     |-> IF is_ac THEN Max(st.alpha, tmp_eval) ELSE st.alpha,
             beta      |-> IF is_ac THEN st.beta ELSE Min(st.beta, tmp_eval),
             copies_ok |-> st.copies_ok /\ child.copies_ok /\ board_copy = b,
             turns_ok  |-> st.turns_ok /\ child.turns_ok
                           /\ ((next_turn(is_ac, m.ret) = is_ac) <=> m.ret),
             lo        |-> Min(st.lo, child.lo),
             hi        |-> Max(st.hi, child.hi),
             cut       |-> st.cut \/ child.cut] :
        child \in { minimax(m.board, next_turn(is_ac, m.ret),
                             depth - 1, <<>>, st.alpha, st.beta) } }) :
        m \in { play_move(board_copy, i) } })

\* Whether a pit after the k-th of the scan order holds a seed.
pits_left(b, k, is_ac) ==
    \E j \in (k + 1)..6 : b[IF is_ac THEN AC_PITS[j] ELSE OPP_PITS[j]] > 0

\* Mutant: the loops do not skip the empty pits.
RECURSIVE scan_empty_too(_, _, _, _, _)
scan_empty_too(b, st, k, is_ac, depth) ==
    IF k > 6 THEN st
    ELSE LET i == IF is_ac THEN AC_PITS[k] ELSE OPP_PITS[k]
         IN  Only({ IF st1.beta <= st1.alpha
                     THEN st1
                     ELSE scan_empty_too(b, st1, k + 1, is_ac, depth) :
                   st1 \in { visit(b, st, i, is_ac, depth) } })

\* Mutant: the cutoff test has its operands swapped (alpha <= beta).
RECURSIVE scan_cut_swapped(_, _, _, _, _)
scan_cut_swapped(b, st, k, is_ac, depth) ==
    IF k > 6 THEN st
    ELSE LET i == IF is_ac THEN AC_PITS[k] ELSE OPP_PITS[k]
         IN  IF st.board[i] = 0 THEN scan_cut_swapped(b, st, k + 1, is_ac, depth)
             ELSE Only({ IF st1.alpha <= st1.beta
                             THEN st1
                             ELSE scan_cut_swapped(b, st1, k + 1, is_ac, depth) :
                           st1 \in { visit(b, st, i, is_ac, depth) } })

\* The pit loops of minimax from the k-th pit of the scan order on.
scan(b, st, k, is_ac, depth) ==
    IF k > 6 THEN st
    ELSE LET i == IF is_ac THEN AC_PITS[k] ELSE OPP_PITS[k]
         IN  IF st.board[i] = 0 THEN scan(b, st, k + 1, is_ac, depth)
             ELSE Only({ IF st1.beta <= st1.alpha
                             THEN [st1 EXCEPT !.cut = @ \/ pits_left(st1.board, k, is_ac)]
                             ELSE scan(b, st1, k + 1, is_ac, depth) :
                           st1 \in { visit(b, st, i, is_ac, depth) } })

\* Mutant: the sweep credits the seeds to the side that has no move.
sweep_own_side(b, is_ac) ==
    IF is_ac
    THEN b[6] - b[13] + (b[12] + b[11] + b[10] + b[9] + b[8] + b[7])
    ELSE b[6] - b[13] - (b[5] + b[4] + b[3] + b[2] + b[1] + b[0])

\* The evaluation of a position whose side to move has no move.
sweep(b, is_ac) ==
    IF is_ac
    THEN b[6] - b[13] - (b[12] + b[11] + b[10] + b[9] + b[8] + b[7])
    ELSE b[6] - b[13] + (b[5] + b[4] + b[3] + b[2] + b[1] + b[0])

\* Mutant: the block for a position without a move is missing.
minimax_no_sweep(b, is_ac, depth, move_out, alpha, beta) ==
    IF depth = 0
    THEN [eval |-> b[6] - b[13], move_out |-> move_out, board |-> b,
          copies_ok |-> TRUE, turns_ok |-> TRUE,
          lo |-> b[6] - b[13], hi |-> b[6] - b[13], cut |-> FALSE]
    ELSE LET st0 == [board |-> b,
                     best_eval |-> IF is_ac THEN -99 ELSE 99,
                     best_move |-> -1,
                     alpha |-> alpha, beta |-> beta, copies_ok |-> TRUE,
                     turns_ok |-> TRUE, lo |-> 99, hi |-> -99, cut |-> FALSE]
         IN  Only({
             LET ev == st.best_eval
             IN  [eval      |-> ev,
                  move_out  |-> IF move_out # <<>> THEN <<st.best_move>>
                                ELSE move_out,
                  board     |-> st.board,
                  copies_ok |-> st.copies_ok,
                  turns_ok  |-> st.turns_ok,
                  lo        |-> Min(st.lo, ev),
                  hi        |-> Max(st.hi, ev),
                  cut       |-> st.cut] :
             st \in { scan(b, st0, 1, is_ac, depth) } })

minimax(b, is_ac, depth, move_out, alpha, beta) ==
    IF depth = 0
    THEN [eval |-> b[6] - b[13], move_out |-> move_out, board |-> b,
          copies_ok |-> TRUE, turns_ok |-> TRUE,
          lo |-> b[6] - b[13], hi |-> b[6] - b[13], cut |-> FALSE]
    ELSE LET st0 == [board |-> b,
                     best_eval |-> IF is_ac THEN -99 ELSE 99,
                     best_move |-> -1,
                     alpha |-> alpha, beta |-> beta, copies_ok |-> TRUE,
                     turns_ok |-> TRUE, lo |-> 99, hi |-> -99, cut |-> FALSE]
         IN  Only({
             LET ev == IF st.best_move = -1 THEN sweep(st.board, is_ac)
                           ELSE st.best_eval
             IN  [eval      |-> ev,
                  move_out  |-> IF move_out # <<>> THEN <<st.best_move>>
                                ELSE move_out,
                  board     |-> st.board,
                  copies_ok |-> st.copies_ok,
                  turns_ok  |-> st.turns_ok,
                  lo        |-> Min(st.lo, ev),
                  hi        |-> Max(st.hi, ev),
                  cut       |-> st.cut] :
             st \in { scan(b, st0, 1, is_ac, depth) } })

(***************************************************************************)
(* SpecSearch: minimax as a function of the board, the turn and the depth, *)
(* called as main calls it (a move slot, the default bounds).  The slot is *)
(* an uninitialized int before the call.  The move found is then applied   *)
(* and the turn flag updated as in the game loop.                          *)
(***************************************************************************)
\* Largest searched depth.
MaxDepth == 3

\* Largest seed count of the one large pit of a searched board.
SearchSeeds == 3

\* Largest seed count of the other two occupied pits of a searched board,
\* one on each side.
SearchSmall == 1

Uninit == {-1, 0}

SearchBoards ==
    { MkBoard(c1, v1, cc[1], v2, cc[2], v3, k) :
        c1 \in PitCells, v1 \in 0..SearchSeeds,
        cc \in (0..5) \X (7..12),
        v2 \in 0..SearchSmall, v3 \in 0..SearchSmall, k \in {0} }

InitSearch ==
    /\ board \in SearchBoards
    /\ is_ac_turn \in BOOLEAN
    /\ ac_move \in Uninit
    /\ pc = "position"
    /\ prev = board
    /\ pit = -1
    /\ go_again = FALSE
    /\ qdepth = 0
    /\ eval = 0
    /\ copies_ok = TRUE
    /\ turns_ok = TRUE
    /\ eval_lo = 0
    /\ eval_hi = 0
    /\ cut = FALSE
    /\ moves = 0

Query(d) ==
    /\ pc = "position"
    /\ \E r \in { minimax(board, is_ac_turn, d, <<ac_move>>, -99, 99) } :
           /\ eval' = r.eval
           /\ ac_move' = r.move_out[1]
           /\ board' = r.board
           /\ copies_ok' = r.copies_ok
           /\ turns_ok' = r.turns_ok
           /\ eval_lo' = r.lo
           /\ eval_hi' = r.hi
           /\ cut' = r.cut
    /\ prev' = board
    /\ qdepth' = d
    /\ pc' = "queried"
    /\ UNCHANGED <<is_ac_turn, pit, go_again, moves>>

\* Mutant: the turn flag is flipped after every move.
loop_turn_flip(is_ac, again) == ~is_ac

\* The turn flag after a move of the game loop: if (!go_again) flip.
loop_turn(is_ac, again) == IF ~again THEN ~is_ac ELSE is_ac

\* The recommended move is applied as the game loop applies a move.
Apply ==
    /\ pc = "queried"
    /\ qdepth >= 1
    /\ ac_move # -1
    /\ LET m == play_move(board, ac_move)
       IN  /\ board' = m.board
           /\ go_again' = m.ret
           /\ is_ac_turn' = loop_turn(is_ac_turn, m.ret)
    /\ prev' = board
    /\ pit' = ac_move
    /\ pc' = "applied"
    /\ UNCHANGED <<qdepth, eval, ac_move, copies_ok, turns_ok, eval_lo, eval_hi,
                   cut, moves>>

NextSearch == (\E d \in 0..MaxDepth : Query(d)) \/ Apply

SpecSearch == InitSearch /\ [][NextSearch]_vars


(***************************************************************************)
(* SpecPlay: the board and the turn flag of main's game loop under every   *)
(* sequence of legal moves (either side may play any of its pits that is   *)
(* not empty), up to MaxMoves moves from the starting board.               *)
(***************************************************************************)
\* Largest number of moves played from the starting board.
MaxMoves == 6

InitPlay ==
    /\ board = StartBoard
    /\ is_ac_turn \in BOOLEAN
    /\ pc = "play"
    /\ prev = board
    /\ pit = -1
    /\ go_again = FALSE
    /\ qdepth = 0
    /\ eval = 0
    /\ ac_move = -1
    /\ copies_ok = TRUE
    /\ turns_ok = TRUE
    /\ eval_lo = 0
    /\ eval_hi = 0
    /\ cut = FALSE
    /\ moves = 0

Play(p) ==
    /\ pc = "play"
    /\ moves < MaxMoves
    /\ (p <= 5) = is_ac_turn
    /\ board[p] > 0
    /\ LET m == play_move(board, p)
       IN  /\ board' = m.board
           /\ go_again' = m.ret
           /\ is_ac_turn' = IF m.ret THEN is_ac_turn ELSE ~is_ac_turn
    /\ prev' = board
    /\ pit' = p
    /\ moves' = moves + 1
    /\ UNCHANGED <<pc, qdepth, eval, ac_move, copies_ok, turns_ok, eval_lo, eval_hi,
                   cut>>

NextPlay == \E p \in PitCells : Play(p)

SpecPlay == InitPlay /\ [][NextPlay]_vars

(***************************************************************************)
(* Spec: the game loop of main from the starting board.  AlphaCala plays   *)
(* the move of its search; the opponent enters any row whose pit is not    *)
(* empty, and any row when all its pits are empty (the loop asks anyway).  *)
(* The search is GameDepth plies deep (20 in main) and the game is         *)
(* followed for MaxPlies moves.                                            *)
(***************************************************************************)
\* Depth of the search of the game loop.
GameDepth == 1

\* Largest number of moves of the game loop.
MaxPlies == 12

Init ==
    /\ board = StartBoard
    /\ is_ac_turn \in BOOLEAN
    /\ pc = "loop"
    /\ prev = board
    /\ pit = -1
    /\ go_again = FALSE
    /\ qdepth = 0
    /\ eval = 0
    /\ ac_move = -1
    /\ copies_ok = TRUE
    /\ turns_ok = TRUE
    /\ eval_lo = 0
    /\ eval_hi = 0
    /\ cut = FALSE
    /\ moves = 0

\* An iteration of the loop on AlphaCala's turn: search, then break or play.
AcTurn ==
    /\ pc = "loop"
    /\ is_ac_turn
    /\ moves < MaxPlies
    /\ \E garbage \in Uninit :
       \E r \in { minimax(board, TRUE, GameDepth, <<garbage>>, -99, 99) } :
         LET mv == r.move_out[1]
         IN  /\ eval' = r.eval
             /\ ac_move' = mv
             /\ copies_ok' = r.copies_ok
             /\ turns_ok' = r.turns_ok
             /\ eval_lo' = r.lo
             /\ eval_hi' = r.hi
             /\ cut' = r.cut
             /\ qdepth' = GameDepth
             /\ IF mv = -1
                THEN /\ pc' = "done"
                     /\ board' = r.board
                     /\ UNCHANGED <<is_ac_turn, prev, pit, go_again, moves>>
                ELSE LET m == play_move(r.board, mv)
                     IN  /\ board' = m.board
                         /\ go_again' = m.ret
                         /\ is_ac_turn' = loop_turn(is_ac_turn, m.ret)
                         /\ prev' = r.board
                         /\ pit' = mv
                         /\ moves' = moves + 1
                         /\ pc' = "loop"

\* An iteration of the loop on the opponent's turn: the row read is played.
OppTurn(row) ==
    /\ pc = "loop"
    /\ ~is_ac_turn
    /\ moves < MaxPlies
    /\ board[12 - row] > 0 \/ \A i \in 7..12 : board[i] = 0
    /\ LET m == play_move(board, 12 - row)
       IN  /\ board' = m.board
           /\ go_again' = m.ret
           /\ is_ac_turn' = loop_turn(is_ac_turn, m.ret)
    /\ prev' = board
    /\ pit' = 12 - row
    /\ moves' = moves + 1
    /\ UNCHANGED <<pc, qdepth, eval, ac_move, copies_ok, turns_ok, eval_lo, eval_hi,
                   cut>>

Next == AcTurn \/ \E row \in 0..5 : OppTurn(row)

Spec == Init /\ [][Next]_vars

(***************************************************************************)
(* SpecGames: from each board of GameBoards and either turn, every game of *)
(* legal moves with the turn passed as the game loop passes it, without a  *)
(* bound on its length.  A side that can move does move.                   *)
(***************************************************************************)
GameBoards == SearchBoards

InitGames ==
    /\ board \in GameBoards
    /\ is_ac_turn \in BOOLEAN
    /\ pc = "game"
    /\ prev = board
    /\ pit = -1
    /\ go_again = FALSE
    /\ qdepth = 0
    /\ eval = 0
    /\ ac_move = -1
    /\ copies_ok = TRUE
    /\ turns_ok = TRUE
    /\ eval_lo = 0
    /\ eval_hi = 0
    /\ cut = FALSE
    /\ moves = 0

GameMove(p) ==
    /\ pc = "game"
    /\ (p <= 5) = is_ac_turn
    /\ board[p] > 0
    /\ LET m == play_move(board, p)
       IN  /\ board' = m.board
           /\ go_again' = m.ret
           /\ is_ac_turn' = loop_turn(is_ac_turn, m.ret)
    /\ prev' = board
    /\ pit' = p
    /\ UNCHANGED <<pc, qdepth, eval, ac_move, copies_ok, turns_ok, eval_lo, eval_hi,
                   cut, moves>>

NextGames == \E p \in PitCells : GameMove(p)

SpecGames == InitGames /\ [][NextGames]_vars /\ WF_vars(NextGames)

(***************************************************************************)
(* Closed forms used by the properties: the mover's sowing cycle has 13    *)
(* cells (all but the opposing store); a cell at distance d (1..13) from   *)
(* pit p receives the d-th, (d+13)-th, ... seed of the move.               *)
(***************************************************************************)
InCycle(c, is_ac) == c # (IF is_ac THEN 13 ELSE 6)

CyclePos(c, is_ac) == IF is_ac THEN c ELSE (c + 7) % 14

Dist(p, c, is_ac) == ((CyclePos(c, is_ac) - CyclePos(p, is_ac) + 12) % 13) + 1

\* How many of the first m seeds of a move from p fall on cell c.
Sown(p, m, c, is_ac) ==
    IF InCycle(c, is_ac) /\ m >= Dist(p, c, is_ac)
    THEN ((m - Dist(p, c, is_ac)) \div 13) + 1
    ELSE 0

\* The cell the n-th (last) seed of a move of n seeds from p falls on.
LastCell(p, n, is_ac) ==
    CHOOSE c \in Cells : InCycle(c, is_ac) /\ Dist(p, c, is_ac) = ((n - 1) % 13) + 1

\* The board when all but the last seed of the move from p are sown.
MidBoard(b, p) ==
    [c \in Cells |-> (IF c = p THEN 0 ELSE b[c]) + Sown(p, b[p] - 1, c, p <= 5)]

Moved == pc = "moved"

Mover == pit <= 5

OwnStore == IF Mover THEN 6 ELSE 13

\* C1 (conservation): after play_move on a legal move the 14 cells sum to
\* what they summed to before, whatever the outcome of the last seed and
\* however many times the sowing laps the board.
C1_Conservation == Moved => Total(board) = Total(prev)

\* A 13-seed move laps the board, ends on its own emptied pit and steals.
C1_Witness ==
    /\ Moved
    /\ prev[pit] = 13
    /\ board[OwnStore] >= prev[OwnStore] + 3
    /\ board[pit] = 0

\* C2 (extra turn): play_move returns true exactly when the last seed of the
\* move falls on cell 6 or cell 13.
C2_ExtraTurn ==
    Moved => (go_again <=> LastCell(pit, prev[pit], Mover) \in {6, 13})

\* The opponent's 14 seeds lap the board once and the last falls in store 13.
C2_Witness == Moved /\ go_again /\ pit >= 7 /\ prev[pit] >= 14

\* C3 (capture): when the last seed falls on a pit L, the mover's store gains
\* 1 + the facing pit, the facing pit is emptied and L stays empty exactly
\* when L was empty before that seed, L is on the mover's side and the facing
\* pit was not empty; otherwise L gains one seed and no store changes.
C3_Capture ==
    Moved /\ LastCell(pit, prev[pit], Mover) \notin {6, 13} =>
        LET L    == LastCell(pit, prev[pit], Mover)
            F    == 12 - L
            mid  == MidBoard(prev, pit)
            cond == mid[L] = 0 /\ (L <= 5) = Mover /\ mid[F] > 0
            captured == /\ board[OwnStore] = mid[OwnStore] + 1 + mid[F]
                        /\ board[F] = 0
                        /\ board[L] = 0
        IN  /\ captured <=> cond
            /\ cond => board = [mid EXCEPT ![OwnStore] = @ + 1 + mid[F], ![F] = 0]
            /\ ~cond => board = [mid EXCEPT ![L] = @ + 1]

\* A steal whose facing pit was empty before the move and was filled by the
\* sowing of the same move.
C3_Witness ==
    /\ Moved
    /\ prev[pit] = 13
    /\ prev[12 - pit] = 0
    /\ board[12 - pit] = 0
    /\ board[OwnStore] = prev[OwnStore] + 3

\* C8 (single seed): a move from a pit of exactly one seed sows nothing: the
\* pit is emptied and the seed is settled by the landing rule on the next
\* cell (pit + 1 for every legal pit); only the pit, that cell, its facing
\* pit and the mover's store can change.  From pit 5 it goes to store 6 and
\* the mover plays again.
C8_SingleSeed ==
    Moved /\ prev[pit] = 1 =>
        LET L    == pit + 1
            F    == 12 - L
            base == [prev EXCEPT ![pit] = 0]
        IN  /\ L = next_pit_index(pit, Mover)
            /\ IF L \in {6, 13}
               THEN board = [base EXCEPT ![L] = @ + 1] /\ go_again
               ELSE IF base[L] = 0 /\ base[F] > 0
               THEN board = [base EXCEPT ![OwnStore] = @ + 1 + base[F], ![F] = 0]
                    /\ ~go_again
               ELSE board = [base EXCEPT ![L] = @ + 1] /\ ~go_again
            /\ pit = 5 => board[6] = prev[6] + 1 /\ go_again

C8_Witness == Moved /\ prev[pit] = 1 /\ pit = 5 /\ board[6] = prev[6] + 1 /\ go_again

Queried == pc = "queried"

SidePits(is_ac) == IF is_ac THEN 0..5 ELSE 7..12

SideEmpty(b, is_ac) == \A i \in SidePits(is_ac) : b[i] = 0

\* C4 (legal recommendation): a query of depth >= 1 with the default bounds
\* reports -1 exactly when the six pits of the side to move are empty, and
\* otherwise a pit of that side that holds a seed.
C4_LegalMove ==
    Queried /\ qdepth >= 1 =>
        /\ ac_move = -1 <=> SideEmpty(prev, is_ac_turn)
        /\ ac_move # -1 => ac_move \in SidePits(is_ac_turn) /\ prev[ac_move] >= 1

\* The opponent is to move, the slot held a pit of the other side before the
\* call and holds a legal pit after it.
C4_Witness ==
    /\ Queried /\ qdepth >= 1 /\ ~is_ac_turn
    /\ ac_move \in 7..12
    /\ prev[ac_move] >= 1
    /\ \E i \in 7..12 : prev[i] = 0

\* The value of the position a move leads to, searched one ply less deep
\* with the default bounds.
ChildValue(b, i, is_ac, d) ==
    LET m == play_move(b, i)
    IN  minimax(m.board, IF is_ac THEN m.ret ELSE ~m.ret, d - 1, <<>>, -99, 99).eval

ScanPos(i, is_ac) ==
    CHOOSE k \in 1..6 : (IF is_ac THEN AC_PITS[k] ELSE OPP_PITS[k]) = i

Candidates(b, is_ac) == { i \in SidePits(is_ac) : b[i] > 0 }

\* The values of the positions the candidate moves lead to.
ChildValues(b, is_ac, d) ==
    [j \in Candidates(b, is_ac) |-> ChildValue(b, j, is_ac, d)]

\* The candidate moves whose value no other candidate's value beats.
BestMoves(b, is_ac, d) ==
    LET val == ChildValues(b, is_ac, d)
    IN  { i \in DOMAIN val :
            \A j \in DOMAIN val : IF is_ac THEN val[j] <= val[i]
                                           ELSE val[j] >= val[i] }

\* C5 (tie-break): the reported move depends only on the board, the turn and
\* the depth: it is, among the pits of the side to move that hold a seed and
\* lead to a position of best value (highest for AlphaCala, lowest for the
\* opponent), the one scanned first in the order 5..0 or 12..7.
C5_TieBreak ==
    Queried /\ qdepth >= 1 /\ ~SideEmpty(prev, is_ac_turn) =>
        LET best == BestMoves(prev, is_ac_turn, qdepth)
        IN  /\ ac_move \in best
            /\ \A j \in best : ScanPos(ac_move, is_ac_turn) <= ScanPos(j, is_ac_turn)

\* Two pits lead to positions of the same best value; the first scanned is
\* reported.
C5_Witness ==
    /\ Queried /\ qdepth >= 2 /\ ac_move # -1
    /\ \E j \in BestMoves(prev, is_ac_turn, qdepth) :
          /\ j # ac_move
          /\ ScanPos(ac_move, is_ac_turn) < ScanPos(j, is_ac_turn)

\* C6 (terminal): when the side to move has six empty pits, a query of depth
\* >= 1 reports -1 and returns board[6] - board[13] minus the seeds of pits
\* 7..12 (AlphaCala to move) or plus the seeds of pits 0..5 (opponent to
\* move), and the board is as it was.
C6_Terminal ==
    Queried /\ qdepth >= 1 /\ SideEmpty(prev, is_ac_turn) =>
        /\ ac_move = -1
        /\ eval = prev[6] - prev[13]
                  + (IF is_ac_turn
                     THEN 0 - SumUpTo(prev, 12) + SumUpTo(prev, 6)
                     ELSE SumUpTo(prev, 5))
        /\ board = prev

\* AlphaCala has no move while the opponent still holds seeds in its pits.
C6_Witness ==
    /\ Queried /\ qdepth >= 1 /\ is_ac_turn
    /\ SideEmpty(prev, TRUE)
    /\ ~SideEmpty(prev, FALSE)
    /\ ac_move = -1
    /\ eval < prev[6] - prev[13]

\* C7 (depth 0): a query of depth 0 returns board[6] - board[13] and reports
\* the no-move sentinel -1, for any board and either turn.
C7_DepthZero ==
    Queried /\ qdepth = 0 => eval = prev[6] - prev[13] /\ ac_move = -1

\* C9 (isolation): a query leaves the board it is given as it was, and every
\* child of every node of the search is played on a copy equal to the board
\* of its node.
C9_Isolation == Queried => board = prev /\ copies_ok

\* A search of two plies or more from a position whose side to move has two
\* pits to choose from.
C9_Witness ==
    /\ Queried /\ qdepth >= 2 /\ ac_move # -1
    /\ Cardinality(Candidates(prev, is_ac_turn)) >= 2
    /\ board = prev

\* C10 (bounded cells): in every board reached from the starting board by
\* legal moves each cell holds between 0 and 48 seeds and the cells sum to
\* 48, so that no increment of play_move wraps a cell.
C10_Bounded ==
    pc = "play" =>
        /\ \A c \in Cells : board[c] \in 0..TotalSeeds
        /\ Total(board) = TotalSeeds

\* A board after a steal by the opponent and a store seed of AlphaCala.
C10_Witness ==
    /\ pc = "play" /\ moves >= 3
    /\ board[13] >= 5
    /\ board[6] >= 1

OtherStore == IF Mover THEN 13 ELSE 6

\* C12 (opposing store): a move from pits 0..5 leaves cell 13 as it was and a
\* move from pits 7..12 leaves cell 6 as it was, for every seed count,
\* sowings that lap the board included.
C12_OtherStore == Moved => board[OtherStore] = prev[OtherStore]

\* The opponent's sowing laps the board, passes cell 6 and banks in cell 13.
C12_Witness ==
    /\ Moved /\ pit >= 7 /\ prev[pit] >= 13
    /\ board[6] = prev[6]
    /\ board[13] > prev[13]
    /\ \A c \in 0..5 : board[c] > prev[c]

\* The cells the first n - 1 seeds of the move fall on, for n <= 12.
SownCells == { c \in Cells : InCycle(c, Mover) /\ Dist(pit, c, Mover) <= prev[pit] - 1 }

LandCell == LastCell(pit, prev[pit], Mover)

\* The last seed made a steal: it fell on a pit that is empty after the move.
Stolen == LandCell \notin {6, 13} /\ board[LandCell] = 0

\* C13 as stated (sowing distribution): after a move of n seeds, 1 <= n <= 12,
\* the source pit holds 0, each of the n - 1 cells that follow it holds
\* exactly one more seed than before, and no cell other than those, the
\* landing cell, its facing pit and the mover's store has changed.
C13_SowingAsStated ==
    Moved /\ prev[pit] \in 1..12 =>
        /\ board[pit] = 0
        /\ \A c \in SownCells : board[c] = prev[c] + 1
        /\ \A c \in Cells \ (SownCells \cup {pit, LandCell, 12 - LandCell, OwnStore}) :
              board[c] = prev[c]
        /\ prev = StartBoard /\ pit = 2 =>
              board[2] = 0 /\ board[3] = 5 /\ board[4] = 5 /\ board[5] = 5 /\ board[6] = 1

\* C13 as amended: the same, except that when the last seed makes a steal
\* and the sowing went round to the mover's side, the facing pit and the
\* mover's store are among the n - 1 cells and do not hold one more seed:
\* the facing pit holds 0 and the store its sown seed, the last seed and the
\* seeds of the facing pit (its sown seed included).
C13_Sowing ==
    Moved /\ prev[pit] \in 1..12 =>
        LET L      == LandCell
            F      == 12 - L
            stolen == Stolen
            sown   == SownCells
        IN  /\ board[pit] = 0
            /\ \A c \in sown :
                  IF stolen /\ c = F THEN board[c] = 0
                  ELSE IF stolen /\ c = OwnStore
                  THEN board[c] = prev[c] + 1 + 1 + (prev[F] + 1)
                  ELSE board[c] = prev[c] + 1
            /\ \A c \in Cells \ (sown \cup {pit, L, F, OwnStore}) :
                  board[c] = prev[c]
            /\ prev = StartBoard /\ pit = 2 =>
                  board[2] = 0 /\ board[3] = 5 /\ board[4] = 5 /\ board[5] = 5
                  /\ board[6] = 1

\* Pit 2 of the starting board: 3, 4 and 5 gain a seed, the last is banked.
C13_Witness ==
    /\ Moved /\ prev = StartBoard /\ pit = 2
    /\ board[3] = 5 /\ board[6] = 1 /\ go_again

\* C15 (stores only grow): after a legal move neither store holds fewer
\* seeds than before it.
C15_StoresGrow == Moved => board[6] >= prev[6] /\ board[13] >= prev[13]

\* A one-seed move steals into a store that already held seeds.
C15_Witness ==
    /\ Moved /\ prev[pit] = 1
    /\ prev[OwnStore] > 0
    /\ board[OwnStore] >= prev[OwnStore] + 2

\* The search of minimax without alpha, beta and the break: the same rules,
\* the same depth-0 and no-move values, the same scan order, the same
\* strict improvement.
RECURSIVE Exhaustive(_, _, _)
RECURSIVE ExhaustiveScan(_, _, _, _, _)
ExhaustiveScan(b, is_ac, d, k, best) ==
    IF k > 6 THEN best
    ELSE LET i == IF is_ac THEN AC_PITS[k] ELSE OPP_PITS[k]
         IN  IF b[i] = 0 THEN ExhaustiveScan(b, is_ac, d, k + 1, best)
             ELSE LET m == play_move(b, i)
                      v == Exhaustive(m.board, IF is_ac THEN m.ret ELSE ~m.ret,
                                      d - 1).eval
                      better == IF is_ac THEN v > best.eval ELSE v < best.eval
                  IN  ExhaustiveScan(b, is_ac, d, k + 1,
                                     IF better THEN [eval |-> v, move |-> i] ELSE best)

Exhaustive(b, is_ac, d) ==
    IF d = 0 THEN [eval |-> b[6] - b[13], move |-> -1]
    ELSE LET r == ExhaustiveScan(b, is_ac, d, 1,
                                 [eval |-> IF is_ac THEN -99 ELSE 99, move |-> -1])
         IN  IF r.move # -1 THEN r
             ELSE [eval |-> b[6] - b[13]
                            + (IF is_ac THEN SumUpTo(b, 6) - SumUpTo(b, 12)
                                        ELSE SumUpTo(b, 5)),
                   move |-> -1]

\* C14 (pruning is sound): with the default bounds -99 and 99 minimax returns
\* the value, and for depth >= 1 reports the move, of the exhaustive search
\* (at depth 0 neither search writes a move).
C14_PruningSound ==
    Queried =>
        LET x == Exhaustive(prev, is_ac_turn, qdepth)
        IN  /\ eval = x.eval
            /\ qdepth >= 1 => ac_move = x.move

\* A search of three plies in which a loop broke off before a non-empty pit.
C14_Witness ==
    /\ Queried /\ qdepth >= 3 /\ cut
    /\ ac_move # -1
    /\ Cardinality(Candidates(prev, is_ac_turn)) >= 2

\* C17 (evaluation range): on a board of T <= 48 seeds every value returned
\* by a node of a search started with the default bounds lies in -T..T; the
\* initial values -99 and 99 are never returned.
C17_EvalRange ==
    Queried /\ Total(prev) <= TotalSeeds =>
        /\ 0 - Total(prev) <= eval_lo
        /\ eval_lo <= eval
        /\ eval <= eval_hi
        /\ eval_hi <= Total(prev)
        /\ eval_lo # -99 /\ eval_hi # 99

\* A search whose nodes returned values below and above the value of the root.
C17_Witness ==
    /\ Queried /\ qdepth >= 2
    /\ eval_lo < eval
    /\ eval < eval_hi

\* C11 (turn passing): after a move applied by the game loop the side to
\* move is the side that moved exactly when play_move returned true, and at
\* every node of the search the side handed to the child is the mover's
\* exactly when play_move returned true, for either mover.
C11_TurnPassing ==
    /\ pc = "applied" => ((is_ac_turn = (pit <= 5)) <=> go_again)
    /\ pc \in {"queried", "applied"} => turns_ok

\* The opponent's move ends in its store after a search of three plies, in
\* which nodes of both sides passed the turn on: the opponent moves again.
C11_Witness ==
    /\ pc = "applied" /\ qdepth >= 3
    /\ pit >= 7 /\ go_again /\ ~is_ac_turn
    /\ turns_ok

\* C16 (no impossible move): whenever the game loop is on the opponent's
\* turn one of the pits 7..12 holds a seed, and no move of the loop is
\* played from an empty pit.
C16_OpponentCanMove ==
    /\ pc = "loop" /\ ~is_ac_turn => \E i \in 7..12 : board[i] > 0
    /\ pit # -1 => prev[pit] > 0

GameOver == SideEmpty(board, is_ac_turn)

\* C18 (every game ends): every sequence of legal moves with the turn passed
\* according to play_move reaches a position whose side to move has six
\* empty pits.
C18_GameEnds == <>GameOver

\* A game that ended after a move from a position in which both sides held
\* seeds.
C18_Witness ==
    /\ pc = "game" /\ pit # -1
    /\ GameOver
    /\ ~SideEmpty(prev, TRUE) /\ ~SideEmpty(prev, FALSE)

====
